---------------------------- MODULE Spec2Model ----------------------------
(***************************************************************************)
(* The Intcode virtual machine of intcode-vm: a Memory of integer cells    *)
(* and an IntcodeVM that owns one and runs the program in it.              *)
(*                                                                         *)
(* One behaviour is the life of one Memory: the caller builds it from a    *)
(* cell sequence, may poke cells with Memory::set and read them with       *)
(* Memory::get, hands it to IntcodeVM::new, drives the VM with run and     *)
(* set_next_input, and takes the memory back with into_memory.             *)
(*                                                                         *)
(* src/intcode-vm/src/vm.rs holds the add / multiply / halt machine over a *)
(* fixed-length Memory.  The result type VMResult, the pending input slot, *)
(* the relative base, the mode digits and opcodes 3..9 are used by the     *)
(* crate's tests (lib.rs) and callers (src/src/day05.rs, day07.rs, ...)    *)
(* but their code is not in vm.rs; those parts follow spec.md sections     *)
(* 4.2 to 4.4 and are marked as such where they are defined.               *)
(***************************************************************************)
EXTENDS Integers, Sequences, FiniteSets, TLC

VARIABLES
    phase,            \* "memory" | "vm" | "extracted" | "panicked" | "diverged"
    memory,           \* Memory::mem, the cells, address a at index a + 1
    instruction_ptr,  \* IntcodeVM::instruction_ptr
    relative_base,    \* the relative-base register
    next_input,       \* the pending input slot: <<>> is None, <<v>> is Some(v)
    pokes,            \* number of Memory::set calls made before IntcodeVM::new
    waiting,          \* history: the last run returned WaitingForInput
    halted,           \* history: <<>>, or <<[mem, ip]>> as they were when run first returned Halted
    last,             \* history: the last call, what it returned, the state before it
    fleet             \* the VMs of a caller that drives several: the cells they own, each VM's registers

vars ==
    <<phase, memory, instruction_ptr, relative_base, next_input, pokes, waiting, halted, last,
      fleet>>

---------------------------------------------------------------------------
(* Bounds of the model. *)

\* Memory::set calls the caller makes before building the VM
MaxPokes == 1
\* addresses 0..MaxAddr are tried by the caller's get and set
MaxAddr == 5
\* input values 0..MaxInput are supplied with set_next_input
MaxInput == 1
\* instructions one run call may execute before the model calls it divergent
MaxSteps == 12
\* VMs one caller builds and drives in turn
MaxVMs == 2
\* characters of a text handed to from_str, beside the text of the doc test
MaxText == 4

---------------------------------------------------------------------------
(* Results.  Every call result and every event is a record of one shape.   *)

Ev(tag, kind, val, arg_num, opcode) ==
    [tag |-> tag, kind |-> kind, val |-> val, arg_num |-> arg_num, opcode |-> opcode]

Tag(t) == Ev(t, "", 0, 0, 0)
Continue == Tag("Continue")
Panic == Tag("Panic")
Diverged == Tag("Diverged")
Unit == Tag("Unit")
Halted == Tag("Halted")
WaitingForInput == Tag("WaitingForInput")
Output(v) == Ev("Output", "", v, 0, 0)
Value(v) == Ev("Value", "", v, 0, 0)
OptionOf(o) == IF o = <<>> THEN Tag("None") ELSE Ev("Some", "", o[1], 0, 0)

UnknownInstruction(u) == Ev("Err", "UnknownInstruction", u, 0, 0)
CannotCastToU16(v) == Ev("Err", "CannotCastToU16", v, 0, 0)
CannotCastToUsize(v) == Ev("Err", "CannotCastToUsize", v, 0, 0)
InvalidArgMode(opcode, arg_num, arg_mode) ==
    Ev("Err", "InvalidArgMode", arg_mode, arg_num, opcode)
ArgModeCannotBeImmediate(opcode, arg_num) ==
    Ev("Err", "ArgModeCannotBeImmediate", 0, arg_num, opcode)

VMErrors ==
    {"UnknownInstruction", "CannotCastToU16", "CannotCastToUsize",
     "InvalidArgMode", "ArgModeCannotBeImmediate"}

---------------------------------------------------------------------------
(* Memory (memory.rs).  ok = FALSE is the panic "Out of bound memory       *)
(* access" of the expect() on Vec::get / Vec::get_mut.                     *)

get(mem, address) ==
    IF address < Len(mem)
    THEN [ok |-> TRUE, val |-> mem[address + 1]]
    ELSE [ok |-> FALSE, val |-> 0]

\* set as a store that grows: zero up to the address, then the value
set_grows(mem, address, value) ==
    IF address < Len(mem)
    THEN [ok |-> TRUE, mem |-> [mem EXCEPT ![address + 1] = value]]
    ELSE [ok |-> TRUE,
          mem |-> [i \in 1..(address + 1) |->
                      IF i <= Len(mem) THEN mem[i] ELSE IF i = address + 1 THEN value ELSE 0]]

\* set as Vec::insert: the value goes in before the cell at the address
set_inserts(mem, address, value) ==
    IF address < Len(mem)
    THEN [ok |-> TRUE,
          mem |-> SubSeq(mem, 1, address) \o <<value>> \o SubSeq(mem, address + 1, Len(mem))]
    ELSE [ok |-> FALSE, mem |-> mem]

set(mem, address, value) ==
    IF address < Len(mem)
    THEN [ok |-> TRUE, mem |-> [mem EXCEPT ![address + 1] = value]]
    ELSE [ok |-> FALSE, mem |-> mem]

\* to_u16 as a wrapping cast: never None
to_u16_wraps(v) == <<v % 65536>>

\* to_usize as a wrapping cast: a negative cell becomes a huge address
to_usize_wraps(v) == <<IF v < 0 THEN v + 2147483647 ELSE v>>

\* ToPrimitive::to_u16 and to_usize of a cell: <<>> is None
to_u16(v) == IF 0 <= v /\ v <= 65535 THEN <<v>> ELSE <<>>
to_usize(v) == IF 0 <= v THEN <<v>> ELSE <<>>

---------------------------------------------------------------------------
(* Decoding (vm.rs, mod instr).  vm.rs matches the whole converted cell    *)
(* against 1, 2 and 99; the split into opcode and mode digits, the widths  *)
(* of opcodes 3..9 and the argument descriptors follow spec.md 4.2, 4.3.   *)

KnownOpcodes == {1, 2, 3, 4, 5, 6, 7, 8, 9, 99}

\* the low two decimal digits
Opcode(u) == u % 100

\* ModeDigit reading the digits from the other end: ten-thousands first
ModeDigit_reversed(u, n) ==
    (u \div (IF n = 1 THEN 10000 ELSE IF n = 2 THEN 1000 ELSE 100)) % 10

\* the mode digit of argument n (1, 2 or 3): hundreds, thousands, ten-thousands
ModeDigit(u, n) ==
    (u \div (IF n = 1 THEN 100 ELSE IF n = 2 THEN 1000 ELSE 10000)) % 10

\* instruction_width that counts the operands and not the opcode cell
instruction_width_operands(op) ==
    CASE op \in {1, 2, 7, 8} -> 3
      [] op \in {5, 6} -> 2
      [] op \in {3, 4, 9} -> 1
      [] op = 99 -> 0

instruction_width(op) ==
    CASE op \in {1, 2, 7, 8} -> 4
      [] op \in {5, 6} -> 3
      [] op \in {3, 4, 9} -> 2
      [] op = 99 -> 1

ArgCount(op) == instruction_width(op) - 1

\* the argument positions that name a write destination
IsDest(op, n) == (op \in {1, 2, 7, 8} /\ n = 3) \/ (op = 3 /\ n = 1)

get_at_instr_ptr(mem, ip, offset) == get(mem, ip + offset)

\* An argument descriptor: an immediate value, or a cell holding an address.
NoArg == [imm |-> FALSE, v |-> 0]

\* DecodeArg that takes an immediate destination as the address to write
DecodeArg_immediate_dest(mem, ip, rb, u, n) ==
    LET cell == get_at_instr_ptr(mem, ip, n).val
        m == ModeDigit(u, n)
    IN  CASE m = 0 -> [ev |-> Continue, arg |-> [imm |-> FALSE, v |-> cell]]
          [] m = 1 -> [ev |-> Continue, arg |-> [imm |-> ~IsDest(Opcode(u), n), v |-> cell]]
          [] m = 2 -> [ev |-> Continue, arg |-> [imm |-> FALSE, v |-> cell + rb]]
          [] OTHER -> [ev |-> InvalidArgMode(Opcode(u), n, m), arg |-> NoArg]

\* DecodeArg that takes every digit but 1 and 2 as the position mode
DecodeArg_other_is_position(mem, ip, rb, u, n) ==
    LET cell == get_at_instr_ptr(mem, ip, n).val
        m == ModeDigit(u, n)
    IN  CASE m = 1 -> IF IsDest(Opcode(u), n)
                      THEN [ev |-> ArgModeCannotBeImmediate(Opcode(u), n), arg |-> NoArg]
                      ELSE [ev |-> Continue, arg |-> [imm |-> TRUE, v |-> cell]]
          [] m = 2 -> [ev |-> Continue, arg |-> [imm |-> FALSE, v |-> cell + rb]]
          [] OTHER -> [ev |-> Continue, arg |-> [imm |-> FALSE, v |-> cell]]

\* The descriptor of argument n of the instruction u at ip (the operand cell exists).
DecodeArg(mem, ip, rb, u, n) ==
    LET cell == get_at_instr_ptr(mem, ip, n).val
        m == ModeDigit(u, n)
    IN  CASE m = 0 -> [ev |-> Continue, arg |-> [imm |-> FALSE, v |-> cell]]
          [] m = 1 -> IF IsDest(Opcode(u), n)
                      THEN [ev |-> ArgModeCannotBeImmediate(Opcode(u), n), arg |-> NoArg]
                      ELSE [ev |-> Continue, arg |-> [imm |-> TRUE, v |-> cell]]
          [] m = 2 -> [ev |-> Continue, arg |-> [imm |-> FALSE, v |-> cell + rb]]
          [] OTHER -> [ev |-> InvalidArgMode(Opcode(u), n, m), arg |-> NoArg]

Decoded(ev, op, a, b, c) == [ev |-> ev, op |-> op, a |-> a, b |-> b, c |-> c]
Undecoded(ev) == Decoded(ev, 0, NoArg, NoArg, NoArg)

\* create_add / create_mul, and their like for the other opcodes: the operand
\* cells are fetched (get_3_after_intr_ptr panics when one does not exist),
\* then each becomes a descriptor, the first bad mode digit being the error.
create(mem, ip, rb, u) ==
    LET op == Opcode(u)
        n == ArgCount(op)
    IN  IF ~get_at_instr_ptr(mem, ip, n).ok THEN Undecoded(Panic)
        ELSE LET a == IF n >= 1 THEN DecodeArg(mem, ip, rb, u, 1)
                      ELSE [ev |-> Continue, arg |-> NoArg]
                 b == IF n >= 2 THEN DecodeArg(mem, ip, rb, u, 2)
                      ELSE [ev |-> Continue, arg |-> NoArg]
                 c == IF n >= 3 THEN DecodeArg(mem, ip, rb, u, 3)
                      ELSE [ev |-> Continue, arg |-> NoArg]
             IN  IF a.ev # Continue THEN Undecoded(a.ev)
                 ELSE IF b.ev # Continue THEN Undecoded(b.ev)
                 ELSE IF c.ev # Continue THEN Undecoded(c.ev)
                 ELSE Decoded(Continue, op, a.arg, b.arg, c.arg)

\* from_current_instr_ptr whose last match arm is a halt
from_current_instr_ptr_other_halts(mem, ip, rb) ==
    LET instr == get_at_instr_ptr(mem, ip, 0)
    IN  IF ~instr.ok THEN Undecoded(Panic)
        ELSE IF to_u16(instr.val) = <<>> THEN Undecoded(CannotCastToU16(instr.val))
        ELSE LET u == to_u16(instr.val)[1]
             IN  IF Opcode(u) \in KnownOpcodes \ {99} THEN create(mem, ip, rb, u)
                 ELSE Decoded(Continue, 99, NoArg, NoArg, NoArg)

from_current_instr_ptr(mem, ip, rb) ==
    LET instr == get_at_instr_ptr(mem, ip, 0)
    IN  IF ~instr.ok THEN Undecoded(Panic)
        ELSE IF to_u16(instr.val) = <<>> THEN Undecoded(CannotCastToU16(instr.val))
        ELSE LET u == to_u16(instr.val)[1]
             IN  IF Opcode(u) = 99 THEN Decoded(Continue, 99, NoArg, NoArg, NoArg)
                 ELSE IF Opcode(u) \in KnownOpcodes THEN create(mem, ip, rb, u)
                 ELSE Undecoded(UnknownInstruction(u))

---------------------------------------------------------------------------
(* Execution (vm.rs, IntcodeVM::run).  A VM is [mem, ip, rb, inp].         *)

\* the value of a source argument: the immediate, or the cell at its address
Load(mem, arg) ==
    IF arg.imm THEN [ev |-> Continue, val |-> arg.v]
    ELSE IF to_usize(arg.v) = <<>> THEN [ev |-> CannotCastToUsize(arg.v), val |-> 0]
    ELSE LET g == get(mem, to_usize(arg.v)[1])
         IN  IF g.ok THEN [ev |-> Continue, val |-> g.val]
             ELSE [ev |-> Panic, val |-> 0]

\* Store that writes before the address is converted: a destination that
\* is no address has the value put in the first cell, then gives the error
Store_before_cast(mem, arg, value) ==
    IF to_usize(arg.v) = <<>>
    THEN [ev |-> CannotCastToUsize(arg.v), mem |-> [mem EXCEPT ![1] = value]]
    ELSE LET s == set(mem, to_usize(arg.v)[1], value)
         IN  [ev |-> IF s.ok THEN Continue ELSE Panic, mem |-> s.mem]

\* the write of value at a destination argument
Store(mem, arg, value) ==
    IF to_usize(arg.v) = <<>> THEN [ev |-> CannotCastToUsize(arg.v), mem |-> mem]
    ELSE LET s == set(mem, to_usize(arg.v)[1], value)
         IN  [ev |-> IF s.ok THEN Continue ELSE Panic, mem |-> s.mem]

\* what an instruction did: the VM after it, how it ended, whether the
\* instruction pointer is still to be advanced by the instruction's width
Done(vm, ev, advance) == [vm |-> vm, ev |-> ev, advance |-> advance]

\* ExecAdd that pushes the sum onto the end of the memory
ExecAdd_pushes(vm, d) ==
    LET arg1_val == Load(vm.mem, d.a)
        arg2_val == Load(vm.mem, d.b)
    IN  IF arg1_val.ev # Continue THEN Done(vm, arg1_val.ev, FALSE)
        ELSE IF arg2_val.ev # Continue THEN Done(vm, arg2_val.ev, FALSE)
        ELSE IF to_usize(d.c.v) = <<>> THEN Done(vm, CannotCastToUsize(d.c.v), FALSE)
        ELSE Done([vm EXCEPT !.mem = Append(@, arg1_val.val + arg2_val.val)], Continue, TRUE)

ExecAdd(vm, d) ==
    LET arg1_val == Load(vm.mem, d.a)
        arg2_val == Load(vm.mem, d.b)
    IN  IF arg1_val.ev # Continue THEN Done(vm, arg1_val.ev, FALSE)
        ELSE IF arg2_val.ev # Continue THEN Done(vm, arg2_val.ev, FALSE)
        ELSE LET w == Store(vm.mem, d.c, arg1_val.val + arg2_val.val)
             IN  Done([vm EXCEPT !.mem = w.mem], w.ev, w.ev = Continue)

ExecMul(vm, d) ==
    LET arg1_val == Load(vm.mem, d.a)
        arg2_val == Load(vm.mem, d.b)
    IN  IF arg1_val.ev # Continue THEN Done(vm, arg1_val.ev, FALSE)
        ELSE IF arg2_val.ev # Continue THEN Done(vm, arg2_val.ev, FALSE)
        ELSE LET w == Store(vm.mem, d.c, arg1_val.val * arg2_val.val)
             IN  Done([vm EXCEPT !.mem = w.mem], w.ev, w.ev = Continue)

\* opcode 3: with the slot empty the call ends before anything is done
ExecInput(vm, d) ==
    IF vm.inp = <<>> THEN Done(vm, WaitingForInput, FALSE)
    ELSE LET w == Store(vm.mem, d.a, vm.inp[1])
         IN  IF w.ev # Continue THEN Done(vm, w.ev, FALSE)
             ELSE Done([vm EXCEPT !.mem = w.mem, !.inp = <<>>], Continue, TRUE)

\* opcode 4: the call ends with the value, the pointer advanced
ExecOutput(vm, d) ==
    LET x == Load(vm.mem, d.a)
    IN  IF x.ev # Continue THEN Done(vm, x.ev, FALSE)
        ELSE Done(vm, Output(x.val), TRUE)

\* opcodes 5 and 6: a taken jump sets the pointer and skips the advance
ExecJump(vm, d, if_true) ==
    LET cond == Load(vm.mem, d.a)
        target == Load(vm.mem, d.b)
    IN  IF cond.ev # Continue THEN Done(vm, cond.ev, FALSE)
        ELSE IF target.ev # Continue THEN Done(vm, target.ev, FALSE)
        ELSE IF (cond.val # 0) # if_true THEN Done(vm, Continue, TRUE)
        ELSE IF to_usize(target.val) = <<>>
             THEN Done(vm, CannotCastToUsize(target.val), FALSE)
        ELSE Done([vm EXCEPT !.ip = to_usize(target.val)[1]], Continue, FALSE)

\* opcodes 7 and 8
ExecCompare(vm, d, less) ==
    LET x == Load(vm.mem, d.a)
        y == Load(vm.mem, d.b)
    IN  IF x.ev # Continue THEN Done(vm, x.ev, FALSE)
        ELSE IF y.ev # Continue THEN Done(vm, y.ev, FALSE)
        ELSE LET holds == IF less THEN x.val < y.val ELSE x.val = y.val
                 w == Store(vm.mem, d.c, IF holds THEN 1 ELSE 0)
             IN  Done([vm EXCEPT !.mem = w.mem], w.ev, w.ev = Continue)

\* opcode 9
ExecAdjustBase(vm, d) ==
    LET x == Load(vm.mem, d.a)
    IN  IF x.ev # Continue THEN Done(vm, x.ev, FALSE)
        ELSE Done([vm EXCEPT !.rb = @ + x.val], Continue, TRUE)

\* increment_instr_ptr_by that sets the pointer to the width
increment_instr_ptr_sets(vm, incr) == [vm EXCEPT !.ip = incr]

increment_instr_ptr_by(vm, incr) == [vm EXCEPT !.ip = @ + incr]

\* the match of run on the decoded instruction
Execute(vm, instruction) ==
    CASE instruction.op = 1 -> ExecAdd(vm, instruction)
      [] instruction.op = 2 -> ExecMul(vm, instruction)
      [] instruction.op = 3 -> ExecInput(vm, instruction)
      [] instruction.op = 4 -> ExecOutput(vm, instruction)
      [] instruction.op = 5 -> ExecJump(vm, instruction, TRUE)
      [] instruction.op = 6 -> ExecJump(vm, instruction, FALSE)
      [] instruction.op = 7 -> ExecCompare(vm, instruction, TRUE)
      [] instruction.op = 8 -> ExecCompare(vm, instruction, FALSE)
      [] instruction.op = 9 -> ExecAdjustBase(vm, instruction)

\* the end of a turn: r is what the instruction did
Advance(instruction_width_, r) ==
    [vm |-> IF r.advance THEN increment_instr_ptr_by(r.vm, instruction_width_) ELSE r.vm,
     ev |-> r.ev]

\* Turn with a halt that does not leave the loop
Turn_halt_goes_on(vm, instruction) ==
    IF instruction.ev # Continue THEN [vm |-> vm, ev |-> instruction.ev]
    ELSE IF instruction.op = 99 THEN [vm |-> increment_instr_ptr_by(vm, 1), ev |-> Continue]
    ELSE Advance(instruction_width(instruction.op), Execute(vm, instruction))

\* Turn with a halt that advances the instruction pointer by its width
Turn_halt_advances(vm, instruction) ==
    IF instruction.ev # Continue THEN [vm |-> vm, ev |-> instruction.ev]
    ELSE IF instruction.op = 99 THEN [vm |-> increment_instr_ptr_by(vm, 1), ev |-> Halted]
    ELSE Advance(instruction_width(instruction.op), Execute(vm, instruction))

\* a turn of run's loop on the instruction decoded at the instruction pointer
Turn(vm, instruction) ==
    IF instruction.ev # Continue THEN [vm |-> vm, ev |-> instruction.ev]
    ELSE IF instruction.op = 99 THEN [vm |-> vm, ev |-> Halted]
    ELSE Advance(instruction_width(instruction.op), Execute(vm, instruction))

\* One turn of run's loop: fetch, decode, execute, advance.
Step(vm) == Turn(vm, from_current_instr_ptr(vm.mem, vm.ip, vm.rb))

\* The loop of run.  fetched lists the VM at every fetch of this call so
\* far, vm (the last of them) included; s is the turn taken at vm.  The
\* result gives the VM when the call ends, how it ended, and fetched.
RECURSIVE RunLoop(_, _), RunFrom(_, _, _)
\* RunFrom that drops an error and goes on with the next cell
RunFrom_skips_error(vm, fetched, s) ==
    IF s.ev.tag = "Err" /\ Len(fetched) < MaxSteps
    THEN RunLoop(increment_instr_ptr_by(s.vm, 1), fetched)
    ELSE IF s.ev # Continue THEN [vm |-> s.vm, ev |-> s.ev, fetched |-> fetched]
    ELSE IF Len(fetched) >= MaxSteps THEN [vm |-> s.vm, ev |-> Diverged, fetched |-> fetched]
    ELSE RunLoop(s.vm, fetched)

RunFrom(vm, fetched, s) ==
    IF s.ev # Continue THEN [vm |-> s.vm, ev |-> s.ev, fetched |-> fetched]
    ELSE IF Len(fetched) >= MaxSteps THEN [vm |-> s.vm, ev |-> Diverged, fetched |-> fetched]
    ELSE RunLoop(s.vm, fetched)

\* RunLoop that decodes from the memory the call started with
RunLoop_decoded_once(vm, fetched) ==
    RunFrom(vm, Append(fetched, vm),
            Turn(vm, from_current_instr_ptr(IF fetched = <<>> THEN vm.mem ELSE fetched[1].mem,
                                            vm.ip, vm.rb)))

RunLoop(vm, fetched) == RunFrom(vm, Append(fetched, vm), Step(vm))

\* run that starts over from address 0 at every call
run_from_zero(vm) == RunLoop([vm EXCEPT !.ip = 0], <<>>)

run(vm) == RunLoop(vm, <<>>)

\* set_next_input that keeps a value still pending
set_next_input_keeps(vm, value) ==
    [vm |-> IF vm.inp = <<>> THEN [vm EXCEPT !.inp = <<value>>] ELSE vm,
     ret |-> OptionOf(vm.inp)]

\* set_next_input: the value replaces the slot's content, which is returned
set_next_input(vm, value) == [vm |-> [vm EXCEPT !.inp = <<value>>], ret |-> OptionOf(vm.inp)]

---------------------------------------------------------------------------
(* The programs the model starts from: those of the crate's tests and doc  *)
(* tests, and short ones that reach each instruction and each error.       *)

Programs ==
    { <<1, 0, 0, 0, 99>>,                          \* lib.rs test_add
      <<2, 3, 0, 3, 99>>,                          \* lib.rs test_mul1
      <<2, 4, 4, 5, 99, 0>>,                       \* lib.rs test_mul2
      <<1, 1, 1, 4, 99, 5, 6, 0, 99>>,             \* lib.rs test_add_into_mul_dynamic
      <<3, 0, 4, 0, 99>>,                          \* lib.rs test_io
      <<3, 3, 104, 0, 99>>,                        \* lib.rs test_io_immediate
      <<1002, 4, 3, 4, 33>>,                       \* lib.rs test_immediate_mul_into_halt
      <<1101, 100, -1, 4, 0>>,                     \* lib.rs test_negative_add
      <<109, 1, 204, -1, 1001, 100, 1, 100,
        1008, 100, 16, 101, 1006, 101, 0, 99>>,    \* lib.rs test_copy_of_itself
      <<1, 0, 0, 3, 99>>,                          \* vm.rs doc test of new
      <<15>>,                                      \* vm.rs doc test of run
      <<1, 9, 10, 3, 2, 3, 11, 0, 99, 30, 40, 50>>,\* lib.rs crate doc test
      <<3, 0, 3, 1, 4, 0, 4, 1, 99>>,              \* two inputs, two outputs
      <<4, 0, 104, 5, 4, 3, 99>>,                  \* three outputs
      <<103, 0, 99>>,                              \* immediate write destination
      <<304, 0, 99>>,                              \* mode digit 3
      <<1105, 1, 4, 99, 104, 7, 99>>,              \* taken jump
      <<1106, 0, 0>>,                              \* a loop that never ends
      <<1107, 1, 2, 5, 99, 0>>,                    \* less-than
      <<1108, 1, 1, 5, 99, 0>>,                    \* equals
      <<109, 2, 204, 1, 99>>,                      \* relative base
      <<1102, 300, 300, 4, 0>>,                    \* a product that is no opcode
      <<11101, 2, 3, 0, 99>>,                      \* add, immediate destination
      <<10008, 0, 0, 0, 99>>,                      \* equals, immediate destination
      <<3002, 0, 0, 0, 99>>,                       \* multiply, mode digit 3
      <<3, 3, 1105, -1, 9, 1101, 0, 0, 12,
        4, 12, 99, 1>>,                            \* jump-if-true on the input
      <<6, 5, 4, 99, 0, 7, 0>>,                    \* jump-if-false, position mode
      <<109, 3, 203, 0, 4, 3, 99>> }               \* relative write

PokeVals == {-1, 3, 4, 99}
Addrs == 0..MaxAddr
Inputs == 0..MaxInput

---------------------------------------------------------------------------
(* The state machine.                                                      *)

VM == [mem |-> memory, ip |-> instruction_ptr, rb |-> relative_base, inp |-> next_input]

\* the state a call starts from
Snapshot ==
    [mem |-> memory, ip |-> instruction_ptr, rb |-> relative_base, inp |-> next_input,
     phase |-> phase, waiting |-> waiting, halted |-> halted]

\* the record of a call: op, its arguments, its result, for a run the VM
\* at each instruction it fetched, and the state the call started from
Call(op, addr, val, ret, fetched) ==
    [op |-> op, addr |-> addr, val |-> val, ret |-> ret, fetched |-> fetched,
     pre |-> Snapshot]

\* no VM beside the one of memory, instruction_ptr, relative_base, next_input
NoFleet == [heap |-> <<>>, vms |-> <<>>]

Init ==
    /\ phase = "memory"
    /\ memory \in Programs
    /\ instruction_ptr = 0
    /\ relative_base = 0
    /\ next_input = <<>>
    /\ pokes = 0
    /\ waiting = FALSE
    /\ halted = <<>>
    /\ last = Call("from", 0, 0, Unit, <<>>)
    /\ fleet = NoFleet

\* memory.get(address), on the Memory before the VM is built or after into_memory
CallGet(address) ==
    /\ phase \in {"memory", "extracted"}
    /\ LET g == get(memory, address)
       IN  /\ phase' = IF g.ok THEN phase ELSE "panicked"
           /\ last' = Call("get", address, 0, IF g.ok THEN Value(g.val) ELSE Panic, <<>>)
    /\ UNCHANGED <<memory, instruction_ptr, relative_base, next_input, pokes, waiting, halted, fleet>>

\* memory.set(address, value), on the Memory before the VM is built
CallSet(address, value) ==
    /\ phase = "memory"
    /\ pokes < MaxPokes
    /\ LET s == set(memory, address, value)
       IN  /\ memory' = s.mem
           /\ phase' = IF s.ok THEN phase ELSE "panicked"
           /\ last' = Call("set", address, value, IF s.ok THEN Unit ELSE Panic, <<>>)
    /\ pokes' = pokes + 1
    /\ UNCHANGED <<instruction_ptr, relative_base, next_input, waiting, halted, fleet>>

\* IntcodeVM::new that starts the VM on the cell after the first
CallNew_at_one ==
    /\ phase = "memory"
    /\ phase' = "vm"
    /\ instruction_ptr' = 1
    /\ relative_base' = 0
    /\ next_input' = <<>>
    /\ last' = Call("new", 0, 0, Unit, <<>>)
    /\ UNCHANGED <<memory, pokes, waiting, halted, fleet>>

\* IntcodeVM::new(memory)
CallNew ==
    /\ phase = "memory"
    /\ phase' = "vm"
    /\ instruction_ptr' = 0
    /\ relative_base' = 0
    /\ next_input' = <<>>
    /\ last' = Call("new", 0, 0, Unit, <<>>)
    /\ UNCHANGED <<memory, pokes, waiting, halted, fleet>>

\* vm.run(): the whole call, to the event, error or panic that ends it
CallRun ==
    /\ phase = "vm"
    /\ LET r == run(VM)
       IN  /\ memory' = r.vm.mem
           /\ instruction_ptr' = r.vm.ip
           /\ relative_base' = r.vm.rb
           /\ next_input' = r.vm.inp
           /\ phase' = CASE r.ev = Panic -> "panicked"
                         [] r.ev = Diverged -> "diverged"
                         [] OTHER -> "vm"
           /\ waiting' = (r.ev = WaitingForInput)
           /\ halted' = IF r.ev = Halted /\ halted = <<>>
                        THEN <<[mem |-> r.vm.mem, ip |-> r.vm.ip]>>
                        ELSE halted
           /\ last' = Call("run", 0, 0, r.ev, r.fetched)
    /\ UNCHANGED <<pokes, fleet>>

\* vm.set_next_input(value)
CallSetNextInput(value) ==
    /\ phase = "vm"
    /\ LET r == set_next_input(VM, value)
       IN  /\ next_input' = r.vm.inp
           /\ last' = Call("set_next_input", 0, value, r.ret, <<>>)
    /\ UNCHANGED <<phase, memory, instruction_ptr, relative_base, pokes, waiting, halted, fleet>>

\* vm.get_next_input()
CallGetNextInput ==
    /\ phase = "vm"
    /\ last' = Call("get_next_input", 0, 0, OptionOf(next_input), <<>>)
    /\ UNCHANGED <<phase, memory, instruction_ptr, relative_base, next_input, pokes,
                   waiting, halted, fleet>>

\* vm.into_memory()
CallIntoMemory ==
    /\ phase = "vm"
    /\ phase' = "extracted"
    /\ last' = Call("into_memory", 0, 0, Unit, <<>>)
    /\ UNCHANGED <<memory, instruction_ptr, relative_base, next_input, pokes,
                   waiting, halted, fleet>>

Next ==
    \/ \E a \in Addrs : CallGet(a)
    \/ \E a \in Addrs, v \in PokeVals : CallSet(a, v)
    \/ CallNew
    \/ CallRun
    \/ \E v \in Inputs : CallSetNextInput(v)
    \/ CallGetNextInput
    \/ CallIntoMemory

Spec == Init /\ [][Next]_vars

---------------------------------------------------------------------------
(* Vocabulary of the properties.                                           *)

LastRun == last.op = "run"

\* the VM as it was when the instruction that ended the last run was fetched
Ending == last.fetched[Len(last.fetched)]

\* the opcode a fetch at vm decodes, -1 when there is none
OpAt(vm) ==
    IF vm.ip < Len(vm.mem) /\ vm.mem[vm.ip + 1] >= 0 /\ vm.mem[vm.ip + 1] <= 65535
    THEN vm.mem[vm.ip + 1] % 100
    ELSE -1

\* the mode digit of the first argument of the instruction at vm
Mode1At(vm) == (vm.mem[vm.ip + 1] \div 100) % 10

\* a read as spec.md 4.1 describes it: zero at and beyond the stored length
ReadCell(mem, address) == IF address < Len(mem) THEN mem[address + 1] ELSE 0

\* the address the first argument of the instruction at vm names (mode 0 or 2)
Addr1At(vm) ==
    ReadCell(vm.mem, vm.ip + 1) + (IF Mode1At(vm) = 2 THEN vm.rb ELSE 0)

\* an instruction on which run returns an event when it is fetched at vm
IsEvent(vm) == OpAt(vm) \in {4, 99} \/ (OpAt(vm) = 3 /\ vm.inp = <<>>)

SameVM(vm) ==
    /\ memory = vm.mem
    /\ instruction_ptr = vm.ip
    /\ relative_base = vm.rb
    /\ next_input = vm.inp

---------------------------------------------------------------------------
C2_RunNeverAborts == ~(LastRun /\ last.ret = Panic)

C6_HaltIdempotent ==
    /\ (halted # <<>> => memory = halted[1].mem /\ instruction_ptr = halted[1].ip)
    /\ (LastRun /\ last.pre.halted # <<>> => last.ret = Halted)
    /\ (LastRun /\ last.ret = Halted => OpAt(VM) = 99)

C6_Witness ==
    /\ LastRun
    /\ last.pre.halted # <<>>
    /\ last.ret = Halted
    /\ instruction_ptr > 0

(* C7.  get at an address at or beyond the stored length returns zero and  *)
(* changes nothing; get below the length returns the stored cell.          *)
C7_ReadBeyondLengthIsZero ==
    last.op = "get" =>
        /\ last.ret = Value(ReadCell(last.pre.mem, last.addr))
        /\ memory = last.pre.mem
        /\ phase = last.pre.phase

(* C8.  set at an address at or beyond the length grows the store: the     *)
(* address exists afterwards and holds the value, the new cells below it   *)
(* are zero, the cells that existed keep their values.                     *)
C8_WriteBeyondLengthGrows ==
    (last.op = "set" /\ last.addr >= Len(last.pre.mem)) =>
        /\ Len(memory) > last.addr
        /\ memory[last.addr + 1] = last.val
        /\ \A i \in 1..Len(last.pre.mem) : memory[i] = last.pre.mem[i]
        /\ \A i \in (Len(last.pre.mem) + 1)..last.addr : memory[i] = 0

(* C9.  get and set panic exactly when the address is not below the number *)
(* of stored cells, and a panicking set stores nothing.                    *)
C9_OutOfBoundsPanics ==
    last.op \in {"get", "set"} =>
        /\ (last.addr >= Len(last.pre.mem) =>
                last.ret = Panic /\ phase = "panicked" /\ memory = last.pre.mem)
        /\ (last.addr < Len(last.pre.mem) => last.ret # Panic /\ phase = last.pre.phase)

C9_Witness ==
    /\ last.op = "set"
    /\ last.addr >= Len(last.pre.mem)
    /\ last.ret = Panic

CellAt(vm) == vm.mem[vm.ip + 1]

(* C12.  When the cell fetched at the instruction pointer converts to 16   *)
(* bits and its opcode is none of 1..9 and 99, run returns                 *)
(* UnknownInstruction carrying the fetched value; a VM created from [15]   *)
(* returns an error from run.                                              *)
C12_UnknownOpcodeIsError ==
    LastRun =>
        /\ (OpAt(Ending) \notin (KnownOpcodes \cup {-1})
                => last.ret = UnknownInstruction(CellAt(Ending)))
        /\ (last.pre.mem = <<15>> /\ last.pre.ip = 0 => last.ret = UnknownInstruction(15))

C12_Witness ==
    /\ LastRun
    /\ last.ret.kind = "UnknownInstruction"
    /\ Len(last.fetched) >= 2

(* C13.  When the cell at the instruction pointer is negative or greater  *)
(* than 65535, run returns CannotCastToU16 carrying that cell, whatever    *)
(* its last two digits are: never UnknownInstruction.                      *)
C13_OpcodeCellOutOfU16 ==
    (LastRun /\ Ending.ip < Len(Ending.mem)
             /\ (CellAt(Ending) < 0 \/ CellAt(Ending) > 65535)) =>
        /\ last.ret = CannotCastToU16(CellAt(Ending))
        /\ last.ret.kind # "UnknownInstruction"

C13_Witness ==
    /\ LastRun
    /\ last.ret.kind = "CannotCastToU16"
    /\ last.ret.val > 65535

\* the operand cell, the mode digit and the address of argument n of the
\* instruction at vm (its operand cells are stored)
ArgCellAt(vm, n) == vm.mem[vm.ip + n + 1]
ModeAt(vm, n) ==
    (CellAt(vm) \div (IF n = 1 THEN 100 ELSE IF n = 2 THEN 1000 ELSE 10000)) % 10
AddrAt(vm, n) == ArgCellAt(vm, n) + (IF ModeAt(vm, n) = 2 THEN vm.rb ELSE 0)

\* the number of arguments of the opcodes of spec.md 4.2
ArgsOf(op) ==
    IF op \in {1, 2, 7, 8} THEN 3 ELSE IF op \in {5, 6} THEN 2
    ELSE IF op \in {3, 4, 9} THEN 1 ELSE 0

\* argument n of opcode op names the cell the instruction writes
DestOf(op, n) == (op \in {1, 2, 7, 8} /\ n = 3) \/ (op = 3 /\ n = 1)

\* the instruction at vm is whole and well formed: an opcode of 1..9, its
\* operand cells stored, mode digits 0, 1 or 2 and no immediate destination
WellFormedAt(vm) ==
    /\ OpAt(vm) \in 1..9
    /\ vm.ip + ArgsOf(OpAt(vm)) < Len(vm.mem)
    /\ \A n \in 1..ArgsOf(OpAt(vm)) :
          /\ ModeAt(vm, n) \in {0, 1, 2}
          /\ (DestOf(OpAt(vm), n) => ModeAt(vm, n) # 1)

\* the value of source argument n of the instruction at vm, as spec.md 4.3
\* reads it (the address is not negative)
ArgValAt(vm, n) ==
    IF ModeAt(vm, n) = 1 THEN ArgCellAt(vm, n) ELSE ReadCell(vm.mem, AddrAt(vm, n))

\* the resolution of the arguments of the instruction at vm reaches
\* argument n: the arguments before it were read from stored cells
ReachesArg(vm, n) ==
    /\ WellFormedAt(vm)
    /\ n \in 1..ArgsOf(OpAt(vm))
    /\ (OpAt(vm) = 3 => vm.inp # <<>>)
    /\ \A m \in 1..(n - 1) :
          ModeAt(vm, m) = 1 \/ (AddrAt(vm, m) >= 0 /\ AddrAt(vm, m) < Len(vm.mem))

(* C14.  When the resolution of an argument of the running instruction,    *)
(* source or destination, comes to an address that is negative, run        *)
(* returns CannotCastToUsize, carrying the operand cell for a position     *)
(* mode argument.                                                          *)
C14_NegativeAddressIsError ==
    LastRun =>
        \A n \in 1..3 :
            (ReachesArg(Ending, n) /\ ModeAt(Ending, n) # 1 /\ AddrAt(Ending, n) < 0) =>
                /\ last.ret.tag = "Err"
                /\ last.ret.kind = "CannotCastToUsize"
                /\ (ModeAt(Ending, n) = 0 => last.ret = CannotCastToUsize(ArgCellAt(Ending, n)))

C14_Witness ==
    /\ LastRun
    /\ OpAt(Ending) \in {1, 2}
    /\ ReachesArg(Ending, 3)
    /\ AddrAt(Ending, 3) < 0
    /\ last.ret.kind = "CannotCastToUsize"

\* the instruction at vm has an opcode of 1..9 and its operand cells are stored
WholeAt(vm) == OpAt(vm) \in 1..9 /\ vm.ip + ArgsOf(OpAt(vm)) < Len(vm.mem)

AfterFetch(i) == IF i < Len(last.fetched) THEN last.fetched[i + 1] ELSE VM

\* mem is pre with value stored at address dest, as spec.md 3 describes
\* a write: the cell holds the value, every other cell of pre is kept
IsWrite(pre, mem, dest, value) ==
    /\ Len(mem) > dest
    /\ Len(mem) >= Len(pre)
    /\ mem[dest + 1] = value
    /\ \A j \in 1..Len(pre) : j # dest + 1 => mem[j] = pre[j]

\* the instruction at vm has opcode op, stored operand cells, every mode
\* digit 0 and no negative operand
PositionModeAt(vm, op) ==
    /\ vm.ip + ArgsOf(op) < Len(vm.mem)
    /\ CellAt(vm) = op
    /\ \A n \in 1..ArgsOf(op) : ArgCellAt(vm, n) >= 0

RanFromStart(program) == LastRun /\ last.pre.mem = program /\ last.pre.ip = 0

Executed(i) ==
    \/ i < Len(last.fetched)
    \/ i = Len(last.fetched) /\ last.ret.tag \in {"Output", "Diverged"}

\* the jump at vm (opcode 5 or 6, executed) is taken
JumpTakenAt(vm) ==
    \/ OpAt(vm) = 5 /\ ArgValAt(vm, 1) # 0
    \/ OpAt(vm) = 6 /\ ArgValAt(vm, 1) = 0

JumpAt(vm) ==
    /\ OpAt(vm) \in {5, 6}
    /\ vm.ip + 2 < Len(vm.mem)
    /\ \A n \in 1..2 :
          ModeAt(vm, n) \in {0, 1, 2} /\ (ModeAt(vm, n) # 1 => AddrAt(vm, n) >= 0)
    /\ ArgValAt(vm, 2) >= 0

ResolvableAt(vm) ==
    /\ WellFormedAt(vm)
    /\ \A n \in 1..ArgsOf(OpAt(vm)) : ModeAt(vm, n) # 1 => AddrAt(vm, n) >= 0

Quine ==
    <<109, 1, 204, -1, 1001, 100, 1, 100, 1008, 100, 16, 101, 1006, 101, 0, 99>>

\* the last call is a run of a VM built from Quine as it is
QuineRun ==
    /\ LastRun
    /\ pokes = 0
    /\ Len(last.pre.mem) >= Len(Quine)
    /\ SubSeq(last.pre.mem, 1, Len(Quine)) = Quine
    /\ last.pre.halted = <<>>

OnlyAddMulHalt == \A i \in 1..Len(last.fetched) : OpAt(last.fetched[i]) \in {1, 2, 99}
                                                  /\ CellAt(last.fetched[i]) < 100

(* C24.  A run from address 0 that fetches only add, multiply and halt     *)
(* instructions and returns, returns Halted, never an output or a wait     *)
(* for input; the memory it leaves is final: every later run returns       *)
(* Halted again and leaves the memory as the first run left it.            *)
C24_MemoryIndependentOfRunCount ==
    LastRun =>
        /\ (OnlyAddMulHalt /\ last.ret.tag \notin {"Err", "Panic", "Diverged"}) =>
              last.ret = Halted /\ halted # <<>>
        /\ last.pre.halted # <<>> =>
              /\ last.ret = Halted
              /\ memory = last.pre.mem
              /\ memory = halted[1].mem
              /\ halted = last.pre.halted

C24_Witness ==
    /\ LastRun
    /\ OnlyAddMulHalt
    /\ last.pre.halted # <<>>
    /\ memory = <<2, 0, 0, 0, 99>>

(* C25.  Every fetch decodes the memory as it is then: an add or multiply  *)
(* the run executes takes its opcode and its operands from the memory at   *)
(* its own fetch, cells written earlier in the same run included.  So      *)
(* [1,1,1,4,99,5,6,0,99] executes the multiply written over the halt at    *)
(* address 4 and halts at address 8 with [30,1,1,4,2,5,6,0,99].            *)
C25_DecodesCurrentMemory ==
    /\ RanFromStart(<<1, 1, 1, 4, 99, 5, 6, 0, 99>>) =>
          /\ last.ret = Halted
          /\ Len(last.fetched) = 3
          /\ last.fetched[2].mem = <<1, 1, 1, 4, 2, 5, 6, 0, 99>>
          /\ memory = <<30, 1, 1, 4, 2, 5, 6, 0, 99>>
          /\ instruction_ptr = 8
    /\ LastRun =>
          \A i \in 1..(Len(last.fetched) - 1) :
              \A op \in {1, 2} :
                  PositionModeAt(last.fetched[i], op) =>
                      LET pre == last.fetched[i]
                          x == pre.mem[ArgCellAt(pre, 1) + 1]
                          y == pre.mem[ArgCellAt(pre, 2) + 1]
                      IN  last.fetched[i + 1].mem =
                              [pre.mem EXCEPT ![ArgCellAt(pre, 3) + 1] =
                                                  IF op = 1 THEN x + y ELSE x * y]

\* a run that executed an instruction written earlier in the same run
C25_Witness ==
    /\ LastRun
    /\ Len(last.fetched) = 3
    /\ last.pre.mem[5] = 99
    /\ last.fetched[2].ip = 4
    /\ last.fetched[2].mem[5] = 2
    /\ last.ret = Halted

(* C27.  Right after IntcodeVM::new the instruction pointer is 0, the      *)
(* relative base is 0, no input is pending and the memory is the cell      *)
(* sequence given, in the same order; into_memory called on the new VM,    *)
(* before any run, returns those cells.                                    *)
C27_NewVMState ==
    /\ [](last.op = "new" =>
            /\ phase = "vm"
            /\ instruction_ptr = 0
            /\ relative_base = 0
            /\ next_input = <<>>
            /\ memory = last.pre.mem)
    /\ [][(last.op = "new" /\ last'.op = "into_memory") =>
            (phase' = "extracted" /\ memory' = last.pre.mem)]_vars

\* into_memory on a VM that has not run
C27_Witness ==
    /\ last.op = "into_memory"
    /\ last.pre.ip = 0
    /\ last.pre.halted = <<>>
    /\ ~last.pre.waiting
    /\ memory = <<1, 0, 0, 3, 99>>

---------------------------------------------------------------------------
(* Several VMs of one caller (day02.rs part2, day07.rs part2).  fleet.heap *)
(* holds the allocations: heap[1] is the caller's Memory, and each VM      *)
(* names the allocation its Memory owns; fleet.vms holds the VMs' other    *)
(* fields, the result of the last call on each, and alone: the same VM     *)
(* with the same calls and no other VM around.                             *)

FleetPrograms ==
    { <<3, 0, 4, 0, 99>>,                          \* lib.rs test_io
      <<1, 0, 0, 0, 99>> }                         \* lib.rs test_add

\* the values day02.rs part2 stores at address 1 of its clone
Nouns == {4}

\* clone that hands out the allocation it was asked to copy
clone_shares(heap, ref) == [heap |-> heap, ref |-> ref]

\* #[derive(Clone)] of Memory: Vec::clone, a new allocation with the same cells
clone(heap, ref) == [heap |-> Append(heap, heap[ref]), ref |-> Len(heap) + 1]

\* Memory::from_iter: the cells collected into a new allocation
from_iter(heap, cells) == [heap |-> Append(heap, cells), ref |-> Len(heap) + 1]

\* NewVM that takes the first instruction pointer from where the cells lie
NewVM_at_allocation(origin, ref, cells) ==
    [origin |-> origin, ref |-> ref, ip |-> ref - 2, rb |-> 0, inp |-> <<>>, ret |-> Unit,
     alone |-> [vm |-> [mem |-> cells, ip |-> 0, rb |-> 0, inp |-> <<>>], ret |-> Unit]]

\* IntcodeVM::new(memory) on the allocation ref; cells is what it holds when
\* nothing else has touched it
NewVM(origin, ref, cells) ==
    [origin |-> origin, ref |-> ref, ip |-> 0, rb |-> 0, inp |-> <<>>, ret |-> Unit,
     alone |-> [vm |-> [mem |-> cells, ip |-> 0, rb |-> 0, inp |-> <<>>], ret |-> Unit]]

\* the VM k as run and set_next_input see it
Deref(k) ==
    [mem |-> fleet.heap[fleet.vms[k].ref], ip |-> fleet.vms[k].ip,
     rb |-> fleet.vms[k].rb, inp |-> fleet.vms[k].inp]

\* a panic unwinds the caller and a run that never returns holds it
Alive == \A k \in 1..Len(fleet.vms) : fleet.vms[k].ret \notin {Panic, Diverged}

FleetFrame ==
    UNCHANGED <<phase, memory, instruction_ptr, relative_base, next_input, pokes,
                waiting, halted, last>>

InitFleetOf(programs) ==
    /\ phase = "memory"
    /\ memory \in programs
    /\ instruction_ptr = 0
    /\ relative_base = 0
    /\ next_input = <<>>
    /\ pokes = 0
    /\ waiting = FALSE
    /\ halted = <<>>
    /\ last = Call("from", 0, 0, Unit, <<>>)
    /\ fleet = [heap |-> <<memory>>, vms |-> <<>>]

InitFleet == InitFleetOf(FleetPrograms)

\* day07.rs: IntcodeVM::from(program.iter().copied())
FleetFrom ==
    /\ Alive
    /\ Len(fleet.vms) < MaxVMs
    /\ LET c == from_iter(fleet.heap, fleet.heap[1])
       IN  fleet' = [heap |-> c.heap,
                     vms |-> Append(fleet.vms, NewVM("from", c.ref, memory))]
    /\ FleetFrame

\* day02.rs: let mut memory = memory.clone(); memory.set(1, noun); IntcodeVM::new(memory)
FleetNewSet(noun) ==
    /\ Alive
    /\ Len(fleet.vms) < MaxVMs
    /\ LET c == clone(fleet.heap, 1)
           s == set(c.heap[c.ref], 1, noun)
           a == set(memory, 1, noun)
       IN  fleet' = [heap |-> [c.heap EXCEPT ![c.ref] = s.mem],
                     vms |-> Append(fleet.vms,
                                    IF s.ok THEN NewVM("new", c.ref, a.mem)
                                    ELSE [NewVM("new", c.ref, a.mem) EXCEPT !.ret = Panic])]
    /\ FleetFrame

\* vm.clone(): #[derive(Clone)] of IntcodeVM clones the Memory and copies the registers
FleetClone(k) ==
    /\ Alive
    /\ Len(fleet.vms) < MaxVMs
    /\ k \in 1..Len(fleet.vms)
    /\ LET c == clone(fleet.heap, fleet.vms[k].ref)
       IN  fleet' = [heap |-> c.heap,
                     vms |-> Append(fleet.vms,
                                    [fleet.vms[k] EXCEPT !.origin = "clone", !.ref = c.ref])]
    /\ FleetFrame

\* the VM k after a run that gave r, where the same run alone gave a
AfterRun(k, r, a) ==
    [heap |-> [fleet.heap EXCEPT ![fleet.vms[k].ref] = r.vm.mem],
     vms |-> [fleet.vms EXCEPT ![k] =
                [@ EXCEPT !.ip = r.vm.ip, !.rb = r.vm.rb, !.inp = r.vm.inp, !.ret = r.ev,
                          !.alone = [vm |-> a.vm, ret |-> a.ev]]]]

\* vms[k].run()
FleetRun(k) ==
    /\ Alive
    /\ k \in 1..Len(fleet.vms)
    /\ fleet' = AfterRun(k, run(Deref(k)), run(fleet.vms[k].alone.vm))
    /\ FleetFrame

\* the VM k after a set_next_input that gave r, where the same call alone gave a
AfterSetNextInput(k, r, a) ==
    [heap |-> [fleet.heap EXCEPT ![fleet.vms[k].ref] = r.vm.mem],
     vms |-> [fleet.vms EXCEPT ![k] =
                [@ EXCEPT !.ip = r.vm.ip, !.rb = r.vm.rb, !.inp = r.vm.inp, !.ret = r.ret,
                          !.alone = [vm |-> a.vm, ret |-> a.ret]]]]

\* vms[k].set_next_input(value), given when the slot is empty as day07.rs does
FleetSetNextInput(k, value) ==
    /\ Alive
    /\ k \in 1..Len(fleet.vms)
    /\ fleet.vms[k].inp = <<>>
    /\ fleet' = AfterSetNextInput(k, set_next_input(Deref(k), value),
                                  set_next_input(fleet.vms[k].alone.vm, value))
    /\ FleetFrame

NextFleet ==
    \/ FleetFrom
    \/ \E noun \in Nouns : FleetNewSet(noun)
    \/ \E k \in 1..MaxVMs : FleetClone(k)
    \/ \E k \in 1..MaxVMs : FleetRun(k)
    \/ \E k \in 1..MaxVMs, value \in Inputs : FleetSetNextInput(k, value)

SpecFleet == InitFleet /\ [][NextFleet]_vars

(* C28.  VMs share no state: whatever calls were made on the other VMs,    *)
(* clones and VMs built from clones of the same Memory included, each VM   *)
(* has the memory, instruction pointer, relative base and pending input,   *)
(* and got from its last call the result, that the same calls give it      *)
(* alone; the Memory the VMs were built from is as it was.                 *)
C28_VMsShareNothing ==
    /\ fleet.heap # <<>> => fleet.heap[1] = memory
    /\ \A k \in 1..Len(fleet.vms) :
          /\ Deref(k) = fleet.vms[k].alone.vm
          /\ fleet.vms[k].ret = fleet.vms[k].alone.ret

\* a VM and its clone, given different inputs after the clone was made,
\* each wrote and put out its own
C28_Witness ==
    /\ Len(fleet.vms) = 2
    /\ fleet.vms[2].origin = "clone"
    /\ fleet.vms[1].ret = Output(0)
    /\ fleet.vms[2].ret = Output(1)
    /\ Deref(1).mem # Deref(2).mem
    /\ Deref(2).mem # memory

---------------------------------------------------------------------------
(* Memory::memory_starts_with (memory.rs), called on a Memory with         *)
(* prefixes made from its own cells.                                       *)

Bool(b) == Ev("Bool", "", IF b THEN 1 ELSE 0, 0, 0)

\* iter.all(|iter_val| self_iter.next().map_or(false, |self_val| self_val.eq(iter_val)))
\* after i elements of both iterators were taken
RECURSIVE all_match(_, _, _)
all_match(mem, prefix, i) ==
    IF i >= Len(prefix) THEN TRUE
    ELSE IF i >= Len(mem) THEN FALSE
    ELSE IF mem[i + 1] # prefix[i + 1] THEN FALSE
    ELSE all_match(mem, prefix, i + 1)

\* memory_starts_with that compares the two iterators zipped: up to the shorter one
memory_starts_with_zipped(mem, prefix) ==
    \A i \in 1..Len(prefix) : i <= Len(mem) => mem[i] = prefix[i]

memory_starts_with(mem, prefix) == all_match(mem, prefix, 0)

\* the prefixes tried on mem: its own beginnings, its cells with one cell
\* changed, its beginnings with the last cell changed, and mem with one
\* more cell
PrefixesOf(mem) ==
    {SubSeq(mem, 1, n) : n \in 0..Len(mem)}
        \cup {[mem EXCEPT ![k] = @ + 1] : k \in 1..Len(mem)}
        \cup {[SubSeq(mem, 1, n) EXCEPT ![n] = @ + 1] : n \in 1..Len(mem)}
        \cup {Append(mem, 5)}

\* memory.memory_starts_with(prefix.iter())
CallStartsWith(prefix) ==
    /\ phase = "memory"
    /\ last' = Call("memory_starts_with", 0, prefix,
                    Bool(memory_starts_with(memory, prefix)), <<>>)
    /\ UNCHANGED <<phase, memory, instruction_ptr, relative_base, next_input, pokes,
                   waiting, halted, fleet>>

NextMem == \E prefix \in PrefixesOf(memory) : CallStartsWith(prefix)

SpecMem == Init /\ [][NextMem]_vars

(* C29.  memory_starts_with(prefix) is true exactly when every index below *)
(* the prefix length is a stored cell equal to the prefix there: a shorter *)
(* prefix can match, the empty prefix matches, a prefix longer than the    *)
(* memory does not; the memory is left as it was.                          *)
C29_StartsWith ==
    last.op = "memory_starts_with" =>
        /\ last.ret = Bool(\A i \in 1..Len(last.val) :
                              i <= Len(memory) /\ memory[i] = last.val[i])
        /\ (last.val = <<>> => last.ret = Bool(TRUE))
        /\ (Len(last.val) > Len(memory) => last.ret = Bool(FALSE))
        /\ memory = last.pre.mem

\* a prefix longer than the memory whose first cells are the memory's
C29_Witness ==
    /\ last.op = "memory_starts_with"
    /\ Len(last.val) > Len(memory)
    /\ SubSeq(last.val, 1, Len(memory)) = memory
    /\ last.ret = Bool(FALSE)

(* C30.  An error ends the run at once: an instruction of a run call that  *)
(* fails with a VMError is the last one the call fetched, the call returns *)
(* that very error to the caller, the VM is left as the failing turn left  *)
(* it and stays usable, and no instruction fetched before it had failed.   *)
C30_ErrorEndsRun ==
    LastRun =>
        \A i \in 1..Len(last.fetched) :
            LET s == Step(last.fetched[i])
            IN  /\ s.ev.tag = "Err" =>
                    /\ i = Len(last.fetched)
                    /\ last.ret = s.ev
                    /\ s.ev.kind \in VMErrors
                    /\ SameVM(s.vm)
                    /\ phase = "vm"
                /\ (i < Len(last.fetched) => s.ev = Continue)

\* an error at an instruction reached after another one was executed
C30_Witness ==
    /\ LastRun
    /\ last.ret.tag = "Err"
    /\ Len(last.fetched) >= 2
    /\ Step(last.fetched[1]).ev = Continue
    /\ Step(Ending).ev = last.ret

---------------------------------------------------------------------------
(* Memory::from_str and IntcodeVM::from_str.  A text is the sequence of    *)
(* its characters.  Texts of up to MaxText characters cannot overflow the  *)
(* cell type, so the overflow kinds of the integer parser do not occur.    *)

Chars == {"0", "1", ",", "-", "+", "x"}
DigitChars == {"0", "1", "2", "3", "4", "5", "6", "7", "8", "9"}

DocText == <<"1", ",", "0", ",", "0", ",", "3", ",", "9", "9">>

Texts == UNION {[1..n -> Chars] : n \in 0..MaxText} \cup {DocText}

ParseIntError(kind) == Ev("ParseIntError", kind, 0, 0, 0)

\* s.split(','): part is the element being read, parts the elements before it
RECURSIVE split_at(_, _, _)
split_at(s, part, parts) ==
    IF s = <<>> THEN Append(parts, part)
    ELSE IF Head(s) = "," THEN split_at(Tail(s), <<>>, Append(parts, part))
    ELSE split_at(Tail(s), Append(part, Head(s)), parts)

\* split that leaves out the empty elements
split_skips_empty(s) == SelectSeq(split_at(s, <<>>, <<>>), LAMBDA p : p # <<>>)

split(s) == split_at(s, <<>>, <<>>)

DigitOf(c) ==
    CASE c = "0" -> 0 [] c = "1" -> 1 [] c = "2" -> 2 [] c = "3" -> 3 [] c = "4" -> 4
      [] c = "5" -> 5 [] c = "6" -> 6 [] c = "7" -> 7 [] c = "8" -> 8 [] c = "9" -> 9

\* the digits read so far have the value acc
RECURSIVE digits_value(_, _)
digits_value(digits, acc) ==
    IF digits = <<>> THEN [ev |-> Continue, val |-> acc]
    ELSE IF Head(digits) \notin DigitChars THEN [ev |-> ParseIntError("InvalidDigit"), val |-> 0]
    ELSE digits_value(Tail(digits), acc * 10 + DigitOf(Head(digits)))

\* part.parse::<T>() for a signed integer T
parse(part) ==
    IF part = <<>> THEN [ev |-> ParseIntError("Empty"), val |-> 0]
    ELSE IF part \in {<<"+">>, <<"-">>} THEN [ev |-> ParseIntError("InvalidDigit"), val |-> 0]
    ELSE IF Head(part) = "+" THEN digits_value(Tail(part), 0)
    ELSE IF Head(part) = "-"
         THEN LET d == digits_value(Tail(part), 0) IN [ev |-> d.ev, val |-> 0 - d.val]
    ELSE digits_value(part, 0)

\* collect() into a Result: the cells, or the first error
RECURSIVE collect(_, _)
collect(parts, cells) ==
    IF parts = <<>> THEN [ev |-> Continue, mem |-> cells]
    ELSE LET p == parse(Head(parts))
         IN  IF p.ev # Continue THEN [ev |-> p.ev, mem |-> <<>>]
             ELSE collect(Tail(parts), Append(cells, p.val))

from_str(s) == collect(split(s), <<>>)

InitText ==
    /\ phase = "text"
    /\ memory = <<>>
    /\ instruction_ptr = 0
    /\ relative_base = 0
    /\ next_input = <<>>
    /\ pokes = 0
    /\ waiting = FALSE
    /\ halted = <<>>
    /\ last = Call("text", 0, 0, Unit, <<>>)
    /\ fleet = NoFleet

\* text.parse::<Memory<_>>()
CallFromStr(text) ==
    /\ phase = "text"
    /\ LET r == from_str(text)
       IN  /\ phase' = IF r.ev = Continue THEN "memory" ELSE "failed"
           /\ memory' = r.mem
           /\ last' = Call("from_str", 0, text, IF r.ev = Continue THEN Unit ELSE r.ev, <<>>)
    /\ UNCHANGED <<instruction_ptr, relative_base, next_input, pokes, waiting, halted, fleet>>

\* text.parse::<IntcodeVM<_>>(): s.parse::<Memory<T>>().map(Self::new)
CallVMFromStr(text) ==
    /\ phase = "text"
    /\ LET r == from_str(text)
       IN  /\ phase' = IF r.ev = Continue THEN "vm" ELSE "failed"
           /\ memory' = r.mem
           /\ last' = Call("vm_from_str", 0, text, IF r.ev = Continue THEN Unit ELSE r.ev, <<>>)
    /\ instruction_ptr' = 0
    /\ relative_base' = 0
    /\ next_input' = <<>>
    /\ UNCHANGED <<pokes, waiting, halted, fleet>>

NextText ==
    \/ \E text \in Texts : CallFromStr(text)
    \/ \E text \in Texts : CallVMFromStr(text)

SpecText == InitText /\ [][NextText]_vars

\* the places of the commas of text, and the element between the commas
\* j - 1 and j (the ends of the text standing for commas 0 and the last + 1)
CommasOf(text) == {i \in 1..Len(text) : text[i] = ","}
CommaAt(text, j) ==
    IF j = 0 THEN 0
    ELSE IF j > Cardinality(CommasOf(text)) THEN Len(text) + 1
    ELSE CHOOSE i \in CommasOf(text) : Cardinality({k \in CommasOf(text) : k <= i}) = j
ElementOf(text, j) == SubSeq(text, CommaAt(text, j - 1) + 1, CommaAt(text, j) - 1)

\* e is written as an integer: an optional sign, then one digit or more
IsInteger(e) ==
    /\ e # <<>>
    /\ LET d == IF e[1] \in {"+", "-"} THEN Tail(e) ELSE e
       IN  d # <<>> /\ \A i \in 1..Len(d) : d[i] \in DigitChars

(* C31.  Parsing a comma-separated text gives the memory of its elements   *)
(* in order when every element between commas is written as an integer,    *)
(* "1,0,0,3,99" giving [1,0,0,3,99]; when an element is not, an empty one  *)
(* included, parsing fails with the integer parser's error for the first   *)
(* such element, and there is no memory and no VM.                         *)
C31_FromStr ==
    last.op \in {"from_str", "vm_from_str"} =>
        LET text == last.val
            n == Cardinality(CommasOf(text)) + 1
            bad == {j \in 1..n : ~IsInteger(ElementOf(text, j))}
        IN  IF bad = {}
            THEN /\ last.ret = Unit
                 /\ phase = (IF last.op = "from_str" THEN "memory" ELSE "vm")
                 /\ Len(memory) = n
                 /\ \A j \in 1..n : memory[j] = parse(ElementOf(text, j)).val
                 /\ (text = DocText => memory = <<1, 0, 0, 3, 99>>)
                 /\ (last.op = "vm_from_str" =>
                        instruction_ptr = 0 /\ relative_base = 0 /\ next_input = <<>>)
            ELSE /\ last.ret.tag = "ParseIntError"
                 /\ last.ret = parse(ElementOf(text, CHOOSE j \in bad : \A k \in bad : j <= k)).ev
                 /\ (ElementOf(text, CHOOSE j \in bad : \A k \in bad : j <= k) = <<>>
                        => last.ret = ParseIntError("Empty"))
                 /\ phase = "failed"
                 /\ memory = <<>>

\* an empty element between two integers
C31_Witness ==
    /\ last.op = "vm_from_str"
    /\ last.val = <<"1", ",", ",", "0">>
    /\ last.ret = ParseIntError("Empty")
    /\ phase = "failed"

\* the program with two inputs and two outputs, as run reads it at fetch
TwoInputs == <<3, 0, 3, 1, 4, 0, 4, 1, 99>>

C33_WriteBelowLength ==
    /\ (last.op = "set" /\ last.addr < Len(last.pre.mem)) =>
          /\ last.ret = Unit
          /\ Len(memory) = Len(last.pre.mem)
          /\ memory[last.addr + 1] = last.val
          /\ \A i \in 1..Len(memory) : i # last.addr + 1 => memory[i] = last.pre.mem[i]
    /\ LastRun =>
          \A i \in 1..Len(last.fetched) :
              Executed(i) =>
                  /\ Len(AfterFetch(i).mem) = Len(last.fetched[i].mem)
                  /\ Cardinality({j \in 1..Len(last.fetched[i].mem) :
                                     AfterFetch(i).mem[j] # last.fetched[i].mem[j]}) <= 1

\* a set that changed the cell it was given
C33_Witness ==
    /\ last.op = "set"
    /\ last.addr < Len(last.pre.mem)
    /\ last.addr + 1 < Len(last.pre.mem)
    /\ memory[last.addr + 1] # last.pre.mem[last.addr + 1]
    /\ memory[last.addr + 2] = last.pre.mem[last.addr + 2]

(* C34.  When run returns a VMError the failing instruction has changed    *)
(* nothing: memory, instruction pointer, relative base and pending input   *)
(* are as they were when it was fetched (an add or multiply whose          *)
(* destination is no address has written nothing), the VM is still usable, *)
(* and run called again fetches that one instruction and returns the same  *)
(* error, again changing nothing.                                          *)
C34_ErrorChangesNothing ==
    (LastRun /\ last.ret.tag = "Err") =>
        /\ SameVM(Ending)
        /\ phase = "vm"
        /\ run(VM).ev = last.ret
        /\ run(VM).vm = VM
        /\ run(VM).fetched = <<VM>>

\* an add or multiply whose two source addresses convert and whose
\* destination is negative
C34_Witness ==
    /\ LastRun
    /\ last.ret.kind = "CannotCastToUsize"
    /\ Ending.ip + 3 < Len(Ending.mem)
    /\ Ending.mem[Ending.ip + 1] \in {1, 2}
    /\ Ending.mem[Ending.ip + 2] >= 0
    /\ Ending.mem[Ending.ip + 3] >= 0
    /\ Ending.mem[Ending.ip + 4] < 0
    /\ last.ret.val = Ending.mem[Ending.ip + 4]

\* the run that ended last fetched, before the instruction that ended it,
\* only cells that vm.rs decodes as instructions it executes: 1 and 2
OnlyAddMulBefore ==
    \A i \in 1..(Len(last.fetched) - 1) : CellAt(last.fetched[i]) \in {1, 2}

\* vm.rs ends a run at the cell the last run ended at: the pointer is off
\* the memory, or the cell is 1, 2 or 99, or the cell is no instruction
EndsAsInSource ==
    \/ Ending.ip >= Len(Ending.mem)
    \/ CellAt(Ending) \in {1, 2, 99}
    \/ last.ret.kind \in {"UnknownInstruction", "CannotCastToU16"}

(* C35.  A run of the VM of vm.rs ends.  In a run call that executed only  *)
(* cells 1 (add) and 2 (multiply): every one of them left the pointer 4    *)
(* further and the memory as long as it was, so the pointer was a multiple *)
(* of 4 at every fetch of a run started at 0 and never went down; the call *)
(* fetched no more than length / 4 + 1 cells and ended on a halt, on an    *)
(* error or on an access out of bounds, never without an end.              *)
C35_RunEnds ==
    (LastRun /\ OnlyAddMulBefore) =>
        /\ \A i \in 1..(Len(last.fetched) - 1) :
              /\ last.fetched[i + 1].ip = last.fetched[i].ip + 4
              /\ Len(last.fetched[i + 1].mem) = Len(last.fetched[i].mem)
        /\ \A i \in 1..Len(last.fetched) :
              /\ last.fetched[i].ip >= last.pre.ip
              /\ (last.pre.ip = 0 => last.fetched[i].ip % 4 = 0)
        /\ Len(last.fetched) <= Len(last.pre.mem) \div 4 + 1
        /\ Len(memory) = Len(last.pre.mem)
        /\ last.ret # Diverged
        /\ EndsAsInSource =>
              \/ last.ret = Halted /\ CellAt(Ending) = 99
              \/ last.ret.tag = "Err"
              \/ last.ret = Panic

\* the program of the crate's doc test: an add, a multiply, then the halt
C35_Witness ==
    /\ LastRun
    /\ last.pre.mem = <<1, 9, 10, 3, 2, 3, 11, 0, 99, 30, 40, 50>>
    /\ last.pre.ip = 0
    /\ Len(last.fetched) = 3
    /\ last.ret = Halted
    /\ memory[1] = 3500

(* C36.  The number of cells of a Memory never changes after it is built: *)
(* every call (get, set, new, run, set_next_input, get_next_input,         *)
(* into_memory) leaves the memory as long as it was before the call, and   *)
(* the memory was that long at every fetch of a run; the length is that of *)
(* one of the programs the memories are built from.                        *)
C36_LengthNeverChanges ==
    /\ Len(memory) = Len(last.pre.mem)
    /\ \A i \in 1..Len(last.fetched) : Len(last.fetched[i].mem) = Len(memory)
    /\ \E program \in Programs : Len(memory) = Len(program)

\* a run that wrote twice in a memory of 12 cells
C36_Witness ==
    /\ LastRun
    /\ Len(last.fetched) >= 3
    /\ last.fetched[2].mem # last.fetched[1].mem
    /\ last.fetched[3].mem # last.fetched[2].mem
    /\ last.ret = Halted
    /\ Len(last.pre.mem) = 12
    /\ Len(memory) = 12

---------------------------------------------------------------------------
(* VMs built from the same cells and given the same calls: every call is   *)
(* made on each VM of the fleet in turn.                                   *)

\* the VM of the allocation h
OwnerOf(h) == CHOOSE k \in 1..Len(fleet.vms) : fleet.vms[k].ref = h

\* every VM after its own run
EachAfterRun ==
    [heap |-> [h \in 1..Len(fleet.heap) |->
                  IF \E k \in 1..Len(fleet.vms) : fleet.vms[k].ref = h
                  THEN run(Deref(OwnerOf(h))).vm.mem
                  ELSE fleet.heap[h]],
     vms |-> [k \in 1..Len(fleet.vms) |->
                  [fleet.vms[k] EXCEPT !.ip = run(Deref(k)).vm.ip,
                                       !.rb = run(Deref(k)).vm.rb,
                                       !.inp = run(Deref(k)).vm.inp,
                                       !.ret = run(Deref(k)).ev,
                                       !.alone = [vm |-> run(@.vm).vm, ret |-> run(@.vm).ev]]]]

\* for vm in vms.iter_mut() { vm.run() }
TwinRun ==
    /\ Alive
    /\ Len(fleet.vms) = MaxVMs
    /\ fleet' = EachAfterRun
    /\ FleetFrame

\* for vm in vms.iter_mut() { vm.set_next_input(value) }
TwinSetNextInput(value) ==
    /\ Alive
    /\ Len(fleet.vms) = MaxVMs
    /\ fleet' = [fleet EXCEPT !.vms =
                    [k \in 1..Len(fleet.vms) |->
                        [fleet.vms[k] EXCEPT
                            !.inp = set_next_input(Deref(k), value).vm.inp,
                            !.ret = set_next_input(Deref(k), value).ret,
                            !.alone = [vm |-> set_next_input(@.vm, value).vm,
                                       ret |-> set_next_input(@.vm, value).ret]]]]
    /\ FleetFrame

InitTwin == InitFleetOf(Programs)

NextTwin ==
    \/ FleetFrom
    \/ TwinRun
    \/ \E value \in Inputs : TwinSetNextInput(value)

SpecTwin == InitTwin /\ [][NextTwin]_vars

===========================================================================
